---------------------------- MODULE Spec2Model ----------------------------
(***************************************************************************)
(* A model of the SOC risk engine: the risk calculator                     *)
(* (risk_engine/calculator.py), the Cortex verdict extraction              *)
(* (risk_engine/clients/cortex.py) and the tagging of a case in TheHive    *)
(* (risk_engine/clients/thehive.py).                                       *)
(*                                                                         *)
(* Numbers.  Python floats are modelled as exact rationals, a record       *)
(* [num, den] in lowest terms with den > 0.  Dollar amounts (asset values, *)
(* impact, ALE, cutoffs) are counted in cents, so that round(x, 2) rounds  *)
(* a rational number of cents to an integer; round(x, 4) of a likelihood   *)
(* rounds to an integer number of ten-thousandths.  Both round half to     *)
(* even, as Python's round does.                                           *)
(*                                                                         *)
(* Strings that the code passes through str.lower() are sequences of       *)
(* one-character strings, so lower() is computed character by character.   *)
(* Strings that are only compared (analyzer names, risk labels) are TLA+   *)
(* strings.                                                                *)
(*                                                                         *)
(* The configuration tables of risk_engine/config.py carry the values the  *)
(* specification states (scenarios A and B of its section 8); the entries  *)
(* it does not state (the default asset value, the default sensitivity     *)
(* tier) are given representative values.  Of the entities of              *)
(* risk_engine/models.py the model keeps the fields the calculator reads   *)
(* and writes.                                                             *)
(***************************************************************************)
EXTENDS Integers, Sequences, FiniteSets, TLC

VARIABLES
    risk_thresholds,  \* config.RISK_THRESHOLDS of this run, in cents
    assessment,       \* the CaseRiskAssessment being scored
    pc,               \* position of the running call
    idx,              \* score_case: index of the next observable to visit
    likelihoods,      \* score_case: the local list of likelihoods
    case_likelihood,  \* score_case: the local case_likelihood (unrounded)
    returned,         \* the RiskScores returned by the completed score_case calls
    args,             \* arguments of the function under call (function specs)
    ret,              \* what that call returned or raised
    thehive,          \* the case in TheHive: its tags now and at the start
    tagging           \* add_case_tag: position and locals of each caller

vars == <<risk_thresholds, assessment, pc, idx, likelihoods, case_likelihood,
          returned, args, ret, thehive, tagging>>

None == [none |-> TRUE]

\* No case is being tagged.
NoTagging ==
    /\ thehive = None
    /\ tagging = None

-----------------------------------------------------------------------------
(* Rational arithmetic                                                     *)

Abs(x) == IF x < 0 THEN -x ELSE x

RECURSIVE GCD(_, _)
GCD(a, b) == IF b = 0 THEN a ELSE GCD(b, a % b)

\* n/d in lowest terms, d > 0.
Rat(n, d) ==
    LET g == GCD(Abs(n), Abs(d))
        s == IF d < 0 THEN -1 ELSE 1
    IN  [num |-> s * (n \div g), den |-> s * (d \div g)]

Zero == Rat(0, 1)
One == Rat(1, 1)

RatAdd(a, b) == Rat(a.num * b.den + b.num * a.den, a.den * b.den)
RatMul(a, b) == Rat(a.num * b.num, a.den * b.den)
RatDivInt(a, k) == Rat(a.num, a.den * k)
RatLeq(a, b) == a.num * b.den <= b.num * a.den
RatLt(a, b) == a.num * b.den < b.num * a.den
RatMin(a, b) == IF RatLeq(a, b) THEN a ELSE b
RatMax(a, b) == IF RatLeq(a, b) THEN b ELSE a

\* round(): the integer nearest to n/d (d > 0, n >= 0), a tie going to the
\* even neighbour.
RoundHalfEven(n, d) ==
    LET q == n \div d
        r == n % d
    IN  IF 2 * r < d THEN q
        ELSE IF 2 * r > d THEN q + 1
        ELSE IF q % 2 = 0 THEN q ELSE q + 1

\* round(x, 4) of a likelihood x, in ten-thousandths.
Round4(x) == RoundHalfEven(x.num * 10000, x.den)

\* round(x, 2) of a rational number x of cents, in cents.
Round2(x) == RoundHalfEven(x.num, x.den)

-----------------------------------------------------------------------------
(* Strings                                                                 *)

LOWERCASE == <<"a", "b", "c", "d", "e", "f", "g", "h", "i", "j", "k", "l", "m",
               "n", "o", "p", "q", "r", "s", "t", "u", "v", "w", "x", "y", "z">>
UPPERCASE == <<"A", "B", "C", "D", "E", "F", "G", "H", "I", "J", "K", "L", "M",
               "N", "O", "P", "Q", "R", "S", "T", "U", "V", "W", "X", "Y", "Z">>

LowerChar(c) ==
    IF \E k \in DOMAIN UPPERCASE : UPPERCASE[k] = c
    THEN LOWERCASE[CHOOSE k \in DOMAIN UPPERCASE : UPPERCASE[k] = c]
    ELSE c

UpperChar(c) ==
    IF \E k \in DOMAIN LOWERCASE : LOWERCASE[k] = c
    THEN UPPERCASE[CHOOSE k \in DOMAIN LOWERCASE : LOWERCASE[k] = c]
    ELSE c

\* str.lower()
Lower(s) == [k \in 1..Len(s) |-> LowerChar(s[k])]

\* Every spelling of s that differs from s in letter case only.
RECURSIVE CaseVariants(_)
CaseVariants(s) ==
    IF s = <<>> THEN {<<>>}
    ELSE {<<c>> \o v : c \in {LowerChar(s[1]), UpperChar(s[1])},
                       v \in CaseVariants(Tail(s))}

\* Every sequence over S of length at most n.
SeqsUpTo(S, n) == UNION {[1..k -> S] : k \in 0..n}

\* dict.get(key, default)
DictGet(d, key, default) == IF key \in DOMAIN d THEN d[key] ELSE default

-----------------------------------------------------------------------------
(* Values of no fixed type                                                 *)
(*                                                                         *)
(* A JSON value is a record [t, s, n]: its type t, the characters s of a   *)
(* string, the number n of an integer.  "missing" stands for a key that    *)
(* the dict does not hold.                                                 *)

PyStr(s) == [t |-> "str", s |-> s, n |-> 0]
PyInt(n) == [t |-> "int", s |-> <<>>, n |-> n]
PyNone == [t |-> "NoneType", s |-> <<>>, n |-> 0]
PyEmptyList == [t |-> "list", s |-> <<>>, n |-> 0]
Missing == [t |-> "missing", s |-> <<>>, n |-> 0]

\* dict.get(key, default) of a key whose value is v.
GetOr(v, default) == IF v = Missing THEN default ELSE v

-----------------------------------------------------------------------------
(* Configuration (risk_engine/config.py)                                   *)

sMalicious == <<"m", "a", "l", "i", "c", "i", "o", "u", "s">>
sSuspicious == <<"s", "u", "s", "p", "i", "c", "i", "o", "u", "s">>
sSafe == <<"s", "a", "f", "e">>
sInfo == <<"i", "n", "f", "o">>
sDatabase == <<"d", "a", "t", "a", "b", "a", "s", "e">>
sHigh == <<"h", "i", "g", "h">>
sMedium == <<"m", "e", "d", "i", "u", "m">>

VERDICT_WEIGHTS ==
    (sMalicious :> One) @@ (sSuspicious :> Rat(1, 2)) @@ (sSafe :> Zero)
        @@ (sInfo :> Zero)

MALICIOUS_CONSENSUS_THRESHOLD == 2

MALICIOUS_CONSENSUS_BOOST == Rat(12, 10)

\* Base asset values, in cents.
ASSET_VALUES == (sDatabase :> 100000 * 100)

DEFAULT_ASSET_VALUE == 1000000

\* Sensitivity multipliers.
SENSITIVITY_MULTIPLIERS == (sHigh :> Rat(2, 1)) @@ (sMedium :> One)

DEFAULT_SENSITIVITY == sMedium

\* ALE cutoffs, in cents.
RISK_THRESHOLDS ==
    [critical |-> 50000000, high |-> 10000000, medium |-> 1000000, low |-> 100000]

-----------------------------------------------------------------------------
(* Likelihood (calculator.py, compute_likelihood)                          *)

RECURSIVE RatSum(_)
RatSum(ws) == IF ws = <<>> THEN Zero ELSE RatAdd(ws[1], RatSum(Tail(ws)))

\* weights = [config.VERDICT_WEIGHTS.get(r.level, 0.0) for r in results]
weights_of(results) ==
    [k \in 1..Len(results) |-> DictGet(VERDICT_WEIGHTS, results[k].level, Zero)]

\* Changed: the results of an unrecognized level are left out of the mean.
avg_of_recognized(results) ==
    LET known == SelectSeq(results, LAMBDA r : r.level \in DOMAIN VERDICT_WEIGHTS)
    IN  IF known = <<>> THEN Zero
        ELSE RatDivInt(RatSum([k \in 1..Len(known) |-> VERDICT_WEIGHTS[known[k].level]]),
                       Len(known))

\* avg = sum(weights) / len(weights)
avg_of(results) ==
    LET weights == weights_of(results)
    IN  RatDivInt(RatSum(weights), Len(weights))

\* Changed: the malicious entries are counted, not the analyzers behind them.
unique_analyzers_by_entry(results) ==
    Cardinality({j \in 1..Len(results) : results[j].level = sMalicious})

\* unique_analyzers = len({r.analyzer_name for r in results if r.level == "malicious"})
unique_analyzers(results) ==
    Cardinality({results[k].analyzer_name :
                    k \in {j \in 1..Len(results) : results[j].level = sMalicious}})

\* compute_likelihood raises AttributeError at r.level: an entry of results
\* is None, not an AnalyzerResult.
compute_likelihood_raises(results) ==
    \E k \in 1..Len(results) : results[k] = PyNone

\* Changed: the boosted mean is returned without the cap.
compute_likelihood_uncapped(results) ==
    IF results = <<>> THEN Zero
    ELSE IF unique_analyzers(results) >= MALICIOUS_CONSENSUS_THRESHOLD
         THEN RatMul(avg_of(results), MALICIOUS_CONSENSUS_BOOST)
         ELSE avg_of(results)

compute_likelihood(results) ==
    IF results = <<>> THEN Zero
    ELSE LET avg == avg_of(results)
             boosted == IF unique_analyzers(results) >= MALICIOUS_CONSENSUS_THRESHOLD
                        THEN RatMul(avg, MALICIOUS_CONSENSUS_BOOST)
                        ELSE avg
         IN  RatMin(boosted, One)

-----------------------------------------------------------------------------
(* Impact (calculator.py, compute_impact)                                  *)

\* Changed: the sensitivity is looked up as given, not lower-cased.
compute_impact_sensitivity_as_given(asset_type, sensitivity) ==
    LET base == DictGet(ASSET_VALUES, Lower(asset_type), DEFAULT_ASSET_VALUE)
        multiplier == DictGet(SENSITIVITY_MULTIPLIERS, sensitivity,
                              SENSITIVITY_MULTIPLIERS[DEFAULT_SENSITIVITY])
    IN  RatMul(Rat(base, 1), multiplier)

\* The impact in cents, a rational.
compute_impact(asset_type, sensitivity) ==
    LET base == DictGet(ASSET_VALUES, Lower(asset_type), DEFAULT_ASSET_VALUE)
        multiplier == DictGet(SENSITIVITY_MULTIPLIERS, Lower(sensitivity),
                              SENSITIVITY_MULTIPLIERS[DEFAULT_SENSITIVITY])
    IN  RatMul(Rat(base, 1), multiplier)

-----------------------------------------------------------------------------
(* Risk level (calculator.py, classify_risk)                               *)

\* ale >= cutoff, for a rational ale and an integer cutoff, both in cents.
AtLeast(ale, cutoff) == ale.num >= cutoff * ale.den

\* Changed: the medium cutoff is checked before the high one.
classify_risk_medium_first(ale) ==
    IF AtLeast(ale, risk_thresholds.critical) THEN "Critical"
    ELSE IF AtLeast(ale, risk_thresholds.medium) THEN "Medium"
    ELSE IF AtLeast(ale, risk_thresholds.high) THEN "High"
    ELSE IF AtLeast(ale, risk_thresholds.low) THEN "Low"
    ELSE "Info"

classify_risk(ale) ==
    IF AtLeast(ale, risk_thresholds.critical) THEN "Critical"
    ELSE IF AtLeast(ale, risk_thresholds.high) THEN "High"
    ELSE IF AtLeast(ale, risk_thresholds.medium) THEN "Medium"
    ELSE IF AtLeast(ale, risk_thresholds.low) THEN "Low"
    ELSE "Info"

-----------------------------------------------------------------------------
(* Top-level scoring (calculator.py, score_observable and score_case)      *)

\* Changed: the likelihood is added to the field (+= for =).
score_observable_adding(observable_risk) ==
    [observable_risk EXCEPT
        !.likelihood = RatAdd(observable_risk.likelihood,
                              compute_likelihood(observable_risk.analyzer_results))]

\* The ObservableRisk after score_observable; the value returned is its
\* likelihood field.
score_observable(observable_risk) ==
    [observable_risk EXCEPT
        !.likelihood = compute_likelihood(observable_risk.analyzer_results)]

RECURSIVE RatMaxSeq(_)
RatMaxSeq(xs) ==
    IF Len(xs) = 1 THEN xs[1] ELSE RatMax(xs[1], RatMaxSeq(Tail(xs)))

\* Changed: the likelihood of the last observable is taken, not the largest.
case_likelihood_of_last(lhs) == IF lhs = <<>> THEN Zero ELSE lhs[Len(lhs)]

\* Changed: a case without observables is given the likelihood 1.0.
case_likelihood_of_empty_one(lhs) == IF lhs = <<>> THEN One ELSE RatMaxSeq(lhs)

\* case_likelihood = max(likelihoods) if likelihoods else 0.0
case_likelihood_of(lhs) == IF lhs = <<>> THEN Zero ELSE RatMaxSeq(lhs)

\* The RiskScore score_case builds from the case likelihood and the impact:
\* likelihood in ten-thousandths, impact_dollars a rational number of cents,
\* ale in cents.
build_risk_score(lh, impact) ==
    LET ale == RatMul(lh, impact)
    IN  [likelihood |-> Round4(lh),
         impact_dollars |-> impact,
         ale |-> Round2(ale),
         risk_level |-> classify_risk(ale)]

-----------------------------------------------------------------------------
(* Inputs                                                                  *)

MaxObservables == 2
MaxCalls == 2
MaxResults == 3

sWeird == <<"w", "e", "i", "r", "d">>
sLaptop == <<"l", "a", "p", "t", "o", "p">>
sLow == <<"l", "o", "w">>

Analyzers == {"VirusTotal", "AbuseIPDB"}

\* The four canonical levels and one that is none of them.
InputLevels == {sMalicious, sSuspicious, sSafe, sInfo, sWeird}

\* The fields of an AnalyzerResult that the calculator reads.
Verdict(name, level) == [analyzer_name |-> name, level |-> level]

Verdicts == {Verdict(n, l) : n \in Analyzers, l \in InputLevels}

\* The verdict lists of the observables of a scored case: none, zero weights
\* only, an unrecognized level, one analyzer reporting malicious twice, two
\* analyzers agreeing with and without the clamp taking effect.
SampleResults ==
    { <<>>,
      <<Verdict("VirusTotal", sSuspicious)>>,
      <<Verdict("VirusTotal", sSuspicious), Verdict("AbuseIPDB", sWeird),
        Verdict("VirusTotal", sSafe)>>,
      <<Verdict("VirusTotal", sMalicious), Verdict("VirusTotal", sMalicious),
        Verdict("AbuseIPDB", sInfo)>>,
      <<Verdict("VirusTotal", sMalicious), Verdict("AbuseIPDB", sMalicious),
        Verdict("VirusTotal", sSafe)>>,
      <<Verdict("VirusTotal", sMalicious), Verdict("AbuseIPDB", sMalicious)>> }

\* An ObservableRisk as constructed: its likelihood is 0.0 until scored.
ObservableInputs == {[analyzer_results |-> r, likelihood |-> Zero] : r \in SampleResults}

AssetTypeInputs == {sDatabase, <<"D", "a", "t", "a", "b", "a", "s", "e">>, sLaptop}

SensitivityInputs == {sHigh, <<"H", "I", "G", "H">>, sMedium, sLow}

\* The cutoffs of a run, in cents: the configured ones, and the same with the
\* medium cutoff at $66,666.67.
ThresholdInputs == {RISK_THRESHOLDS, [RISK_THRESHOLDS EXCEPT !.medium = 6666667]}

-----------------------------------------------------------------------------
(* score_case, one observable at a time                                    *)

NoCall == [fn |-> "none"]

Init ==
    /\ risk_thresholds \in ThresholdInputs
    /\ assessment \in [asset_type : AssetTypeInputs,
                       sensitivity : SensitivityInputs,
                       observables : SeqsUpTo(ObservableInputs, MaxObservables),
                       risk_score : {None}]
    /\ pc = "idle"
    /\ idx = 0
    /\ likelihoods = <<>>
    /\ case_likelihood = None
    /\ returned = <<>>
    /\ args = NoCall
    /\ ret = None
    /\ NoTagging

\* score_case is called: likelihoods = []
ScoreCaseBegin ==
    /\ pc = "idle"
    /\ Len(returned) < MaxCalls
    /\ pc' = "loop"
    /\ idx' = 1
    /\ likelihoods' = <<>>
    /\ case_likelihood' = None
    /\ UNCHANGED <<thehive, tagging, risk_thresholds, assessment, returned,
                   args, ret>>

\* Changed: each turn of the loop also stores a RiskScore of the observables
\* visited so far in the assessment.
ScoreCaseLoop_storing_score ==
    /\ pc = "loop"
    /\ idx <= Len(assessment.observables)
    /\ ~compute_likelihood_raises(assessment.observables[idx].analyzer_results)
    /\ LET scored == score_observable(assessment.observables[idx])
           lhs == Append(likelihoods, scored.likelihood)
           risk == build_risk_score(case_likelihood_of(lhs),
                                    compute_impact(assessment.asset_type,
                                                   assessment.sensitivity))
       IN  /\ assessment' = [assessment EXCEPT !.observables[idx] = scored,
                                               !.risk_score = risk]
           /\ likelihoods' = lhs
    /\ idx' = idx + 1
    /\ UNCHANGED <<thehive, tagging, risk_thresholds, pc, case_likelihood,
                   returned, args, ret>>

\* One turn of the loop: lh = score_observable(obs_risk); likelihoods.append(lh)
ScoreCaseLoop ==
    /\ pc = "loop"
    /\ idx <= Len(assessment.observables)
    /\ ~compute_likelihood_raises(assessment.observables[idx].analyzer_results)
    /\ LET scored == score_observable(assessment.observables[idx])
       IN  /\ assessment' = [assessment EXCEPT !.observables[idx] = scored]
           /\ likelihoods' = Append(likelihoods, scored.likelihood)
    /\ idx' = idx + 1
    /\ UNCHANGED <<thehive, tagging, risk_thresholds, pc, case_likelihood,
                   returned, args, ret>>

\* After the loop: the case likelihood, the impact, the ALE, the RiskScore,
\* its assignment to the assessment, and the return.
ScoreCaseFinish ==
    /\ pc = "loop"
    /\ idx > Len(assessment.observables)
    /\ LET lh == case_likelihood_of(likelihoods)
           impact == compute_impact(assessment.asset_type, assessment.sensitivity)
           risk == build_risk_score(lh, impact)
       IN  /\ case_likelihood' = lh
           /\ assessment' = [assessment EXCEPT !.risk_score = risk]
           /\ returned' = Append(returned, risk)
    /\ pc' = "idle"
    /\ UNCHANGED <<thehive, tagging, risk_thresholds, idx, likelihoods, args,
                   ret>>

Next == ScoreCaseBegin \/ ScoreCaseLoop \/ ScoreCaseFinish

Spec == Init /\ [][Next]_vars

-----------------------------------------------------------------------------
(* score_case over assessments that change between passes and that may     *)
(* hold an entry that is not an AnalyzerResult                             *)

\* Verdict lists: none, one suspicious, two analyzers agreeing on
\* malicious, and one whose second entry is None.
RescoreResults ==
    { <<>>,
      <<Verdict("VirusTotal", sSuspicious)>>,
      <<Verdict("VirusTotal", sMalicious), Verdict("AbuseIPDB", sMalicious)>>,
      <<Verdict("VirusTotal", sSuspicious), PyNone>> }

InitRescore ==
    /\ risk_thresholds = RISK_THRESHOLDS
    /\ assessment \in [asset_type : {sDatabase, sLaptop},
                       sensitivity : {sHigh, sLow},
                       observables :
                           SeqsUpTo({[analyzer_results |-> r, likelihood |-> Zero] :
                                        r \in RescoreResults}, MaxObservables),
                       risk_score : {None}]
    /\ pc = "idle"
    /\ idx = 0
    /\ likelihoods = <<>>
    /\ case_likelihood = None
    /\ returned = <<>>
    /\ args = NoCall
    /\ ret = None
    /\ NoTagging

\* The exception of score_observable leaves score_case: the observables
\* visited before keep their new likelihoods, nothing else is written.
ScoreCaseRaise ==
    /\ pc = "loop"
    /\ idx <= Len(assessment.observables)
    /\ compute_likelihood_raises(assessment.observables[idx].analyzer_results)
    /\ pc' = "raised"
    /\ UNCHANGED <<thehive, tagging, risk_thresholds, assessment, idx,
                   likelihoods, case_likelihood, returned, args, ret>>

\* Between two passes the owning workflow replaces the verdicts of one
\* observable of a scored assessment.
RefetchVerdicts ==
    /\ pc = "idle"
    /\ returned # <<>>
    /\ Len(returned) < MaxCalls
    /\ \E k \in DOMAIN assessment.observables, r \in RescoreResults :
          /\ r # assessment.observables[k].analyzer_results
          /\ assessment' = [assessment EXCEPT !.observables[k].analyzer_results = r]
    /\ UNCHANGED <<thehive, tagging, risk_thresholds, pc, idx, likelihoods,
                   case_likelihood, returned, args, ret>>

NextRescore ==
    ScoreCaseBegin \/ ScoreCaseLoop \/ ScoreCaseFinish \/ ScoreCaseRaise
        \/ RefetchVerdicts

SpecRescore == InitRescore /\ [][NextRescore]_vars

-----------------------------------------------------------------------------
(* Function calls: one call of a function on arguments drawn by the        *)
(* initial state.                                                          *)

\* The state outside the call: no assessment is being scored.
NoScoring ==
    /\ assessment = None
    /\ idx = 0
    /\ likelihoods = <<>>
    /\ case_likelihood = None
    /\ returned = <<>>

InitLikelihood ==
    /\ risk_thresholds = RISK_THRESHOLDS
    /\ NoScoring
    /\ NoTagging
    /\ pc = "call"
    /\ args \in {[fn |-> "compute_likelihood", results |-> r] :
                    r \in SeqsUpTo(Verdicts, MaxResults)}
    /\ ret = None

CallLikelihood ==
    /\ pc = "call"
    /\ args.fn = "compute_likelihood"
    /\ ret' = compute_likelihood(args.results)
    /\ pc' = "returned"
    /\ UNCHANGED <<thehive, tagging, risk_thresholds, assessment, idx,
                   likelihoods, case_likelihood, returned, args>>

SpecLikelihood == InitLikelihood /\ [][CallLikelihood]_vars

\* Asset types and sensitivities in every letter case, configured or not,
\* and the empty string.
ImpactAssetTypes == CaseVariants(sDatabase) \cup CaseVariants(sLaptop) \cup {<<>>}

ImpactSensitivities ==
    CaseVariants(sHigh) \cup CaseVariants(sMedium) \cup CaseVariants(sLow) \cup {<<>>}

InitImpact ==
    /\ risk_thresholds = RISK_THRESHOLDS
    /\ NoScoring
    /\ NoTagging
    /\ pc = "call"
    /\ args \in [fn : {"compute_impact"},
                 asset_type : ImpactAssetTypes,
                 sensitivity : ImpactSensitivities]
    /\ ret = None

CallImpact ==
    /\ pc = "call"
    /\ args.fn = "compute_impact"
    /\ ret' = compute_impact(args.asset_type, args.sensitivity)
    /\ pc' = "returned"
    /\ UNCHANGED <<thehive, tagging, risk_thresholds, assessment, idx,
                   likelihoods, case_likelihood, returned, args>>

SpecImpact == InitImpact /\ [][CallImpact]_vars

\* Cutoffs in cents, in any order, and ALE values at, next to and between them.
CutoffInputs == {100000, 1000000, 10000000, 50000000}

AleInputs ==
    {Zero} \cup {Rat(2 * c + d, 2) : c \in CutoffInputs, d \in {-1, 0, 1}}

InitClassify ==
    /\ risk_thresholds \in [critical : CutoffInputs, high : CutoffInputs,
                            medium : CutoffInputs, low : CutoffInputs]
    /\ NoScoring
    /\ NoTagging
    /\ pc = "call"
    /\ args \in {a \in [fn : {"classify_risk"}, ale : AleInputs, ale2 : AleInputs] :
                    RatLeq(a.ale, a.ale2)}
    /\ ret = None

\* classify_risk is called on each of the two ALE values.
CallClassify ==
    /\ pc = "call"
    /\ args.fn = "classify_risk"
    /\ ret' = <<classify_risk(args.ale), classify_risk(args.ale2)>>
    /\ pc' = "returned"
    /\ UNCHANGED <<thehive, tagging, risk_thresholds, assessment, idx,
                   likelihoods, case_likelihood, returned, args>>

SpecClassify == InitClassify /\ [][CallClassify]_vars

-----------------------------------------------------------------------------
(* Verdict extraction (clients/cortex.py, _parse_score and                 *)
(* CortexClient.extract_verdicts)                                          *)

DIGITS == <<"0", "1", "2", "3", "4", "5", "6", "7", "8", "9">>

IsDigit(c) == \E k \in DOMAIN DIGITS : DIGITS[k] = c

DigitValue(c) == (CHOOSE k \in DOMAIN DIGITS : DIGITS[k] = c) - 1

\* The number a string of digits denotes.
RECURSIVE DigitsValue(_)
DigitsValue(s) ==
    IF s = <<>> THEN 0
    ELSE 10 * DigitsValue(SubSeq(s, 1, Len(s) - 1)) + DigitValue(s[Len(s)])

\* The decimal digits of n >= 0.
RECURSIVE DigitsOf(_)
DigitsOf(n) ==
    IF n < 10 THEN <<DIGITS[n + 1]>> ELSE Append(DigitsOf(n \div 10), DIGITS[(n % 10) + 1])

\* str(value)
PyStrOf(v) ==
    CASE v.t = "str" -> v.s
      [] v.t = "int" -> DigitsOf(v.n)
      [] v.t = "NoneType" -> <<"N", "o", "n", "e">>
      [] v.t = "list" -> <<"[", "]">>

\* float(s) of a string s: the number of a non-empty string of digits, and a
\* ValueError for any other string over the characters that occur here (no
\* sign, point, exponent or blank is among them).
FloatOfStr(s) ==
    IF s # <<>> /\ \A k \in 1..Len(s) : IsDigit(s[k])
    THEN [exc |-> "", value |-> Rat(DigitsValue(s), 1)]
    ELSE [exc |-> "ValueError", value |-> Zero]

\* float(value)
FloatOf(v) ==
    CASE v.t = "str" -> FloatOfStr(v.s)
      [] v.t = "int" -> [exc |-> "", value |-> Rat(v.n, 1)]
      [] OTHER -> [exc |-> "TypeError", value |-> Zero]

\* The position of the first "/" in s, and Len(s) + 1 when there is none.
FirstSlash(s) ==
    IF \E k \in 1..Len(s) : s[k] = "/"
    THEN CHOOSE k \in 1..Len(s) : s[k] = "/" /\ \A j \in 1..(k - 1) : s[j] # "/"
    ELSE Len(s) + 1

\* parts[0] and parts[1] of s.split("/"), for s with a "/" in it.
SplitPart0(s) == SubSeq(s, 1, FirstSlash(s) - 1)

SplitPart1(s) ==
    LET rest == SubSeq(s, FirstSlash(s) + 1, Len(s))
    IN  SubSeq(rest, 1, FirstSlash(rest) - 1)

\* _parse_score(value): the exception it raises ("" for none) and the score
\* it returns.  ValueError and ZeroDivisionError are caught, others are not.
_parse_score(value) ==
    LET text == PyStrOf(value)
        tried ==
            IF \E k \in 1..Len(text) : text[k] = "/"
            THEN LET a == FloatOfStr(SplitPart0(text))
                     b == FloatOfStr(SplitPart1(text))
                 IN  IF a.exc # "" THEN a
                     ELSE IF b.exc # "" THEN b
                     ELSE IF b.value = Zero
                          THEN [exc |-> "ZeroDivisionError", value |-> Zero]
                          ELSE [exc |-> "", value |-> Rat(a.value.num, b.value.num)]
            ELSE FloatOf(value)
    IN  IF tried.exc \in {"ValueError", "ZeroDivisionError"}
        THEN [exc |-> "", value |-> Zero]
        ELSE tried

CanonicalLevels == {sMalicious, sSuspicious, sSafe, sInfo}

\* One turn of the loop of extract_verdicts on taxonomy tax: the exception
\* raised ("" for none) and the AnalyzerResult appended.
extract_one(analyzer_name, tax) ==
    LET lv == GetOr(tax.level, PyStr(sInfo))
        level == IF Lower(lv.s) \in CanonicalLevels THEN Lower(lv.s) ELSE sInfo
        score == _parse_score(GetOr(tax.value, PyStr(<<"0">>)))
        result == [analyzer_name |-> analyzer_name,
                   level |-> level,
                   score |-> score.value,
                   namespace |-> IF tax.namespace = <<>> THEN "" ELSE tax.namespace[1],
                   predicate |-> IF tax.predicate = <<>> THEN "" ELSE tax.predicate[1],
                   raw_value |-> PyStrOf(GetOr(tax.value, PyStr(<<>>)))]
    IN  IF lv.t # "str" THEN [exc |-> "AttributeError", result |-> None]
        ELSE IF score.exc # "" THEN [exc |-> score.exc, result |-> None]
        ELSE [exc |-> "", result |-> result]

\* The loop over taxonomies from the k-th on, results being those appended
\* so far: an exception ends the call and nothing is returned.
RECURSIVE extract_loop(_, _, _, _)
extract_loop(analyzer_name, taxonomies, k, results) ==
    IF k > Len(taxonomies) THEN [raised |-> "", results |-> results]
    ELSE LET one == extract_one(analyzer_name, taxonomies[k])
         IN  IF one.exc # "" THEN [raised |-> one.exc, results |-> <<>>]
             ELSE extract_loop(analyzer_name, taxonomies, k + 1,
                               Append(results, one.result))

\* extract_verdicts(job).  A job is [analyzerName, report, summary,
\* taxonomies]: analyzerName is <<>> (no such key) or <<name>>; report and
\* summary are "missing", "null" or "dict"; taxonomies is [t, items] with t
\* "missing", "null" or "list".
extract_verdicts(job) ==
    LET analyzer_name == IF job.analyzerName = <<>> THEN "unknown" ELSE job.analyzerName[1]
        taxonomies == IF job.report = "dict" /\ job.summary = "dict"
                         /\ job.taxonomies.t = "list"
                      THEN job.taxonomies.items
                      ELSE <<>>
    IN  IF taxonomies = <<>> THEN [raised |-> "", results |-> <<>>]
        ELSE extract_loop(analyzer_name, taxonomies, 1, <<>>)

MaxScoreLen == 3
MaxTaxonomies == 2

ScoreChars == {"0", "5", "/", "x"}

\* The score values of a taxonomy: strings, null, an integer, a list, no value.
ScoreValues ==
    {PyStr(s) : s \in SeqsUpTo(ScoreChars, MaxScoreLen)}
        \cup {PyNone, PyInt(5), PyEmptyList, Missing}

LevelValues ==
    {PyStr(<<"M", "a", "l", "i", "c", "i", "o", "u", "s">>), PyStr(sWeird), PyNone, Missing}

TaxonomyInputs ==
    [level : LevelValues, value : ScoreValues, namespace : {<<"VT">>}, predicate : {<<>>}]

\* Jobs with a list of taxonomies, and jobs whose report, summary or
\* taxonomies are missing or null.
JobInputs ==
    {[analyzerName |-> a, report |-> "dict", summary |-> "dict",
      taxonomies |-> [t |-> "list", items |-> xs]] :
        a \in {<<>>, <<"VirusTotal">>}, xs \in SeqsUpTo(TaxonomyInputs, MaxTaxonomies)}
    \cup
    {[analyzerName |-> <<"VirusTotal">>, report |-> r[1], summary |-> r[2],
      taxonomies |-> [t |-> r[3], items |-> <<>>]] :
        r \in {<<"missing", "missing", "missing">>, <<"null", "missing", "missing">>,
               <<"dict", "missing", "missing">>, <<"dict", "null", "missing">>,
               <<"dict", "dict", "missing">>, <<"dict", "dict", "null">>}}

InitExtract ==
    /\ risk_thresholds = RISK_THRESHOLDS
    /\ NoScoring
    /\ NoTagging
    /\ pc = "call"
    /\ args \in [fn : {"extract_verdicts"}, job : JobInputs]
    /\ ret = None

CallExtract ==
    /\ pc = "call"
    /\ args.fn = "extract_verdicts"
    /\ ret' = extract_verdicts(args.job)
    /\ pc' = "returned"
    /\ UNCHANGED <<thehive, tagging, risk_thresholds, assessment, idx,
                   likelihoods, case_likelihood, returned, args>>

SpecExtract == InitExtract /\ [][CallExtract]_vars

-----------------------------------------------------------------------------
(* Tagging a case (clients/thehive.py, add_case_tag)                       *)
(*                                                                         *)
(* Several callers tag the same case.  A call is two requests to TheHive,  *)
(* the GET of get_case and the PATCH, and requests of other callers may be *)
(* served between them.  TheHive stores the tag list a PATCH sends.        *)

\* config.SCORED_TAG
SCORED_TAG == "risk-scored"

MaxCallers == 2
MaxTagCalls == 2

Callers == 1..MaxCallers

TagInputs == {SCORED_TAG, "triaged"}

TagsAtStart == {<<>>, <<"phishing">>, <<SCORED_TAG>>}

\* The elements of a list.
Elems(list) == {list[k] : k \in DOMAIN list}

\* list.count(x)
Count(x, list) == Cardinality({k \in DOMAIN list : list[k] = x})

InitTags ==
    /\ risk_thresholds = RISK_THRESHOLDS
    /\ NoScoring
    /\ pc = "tagging"
    /\ args = NoCall
    /\ ret = None
    /\ thehive \in {[tags |-> t, tags_at_start |-> t] : t \in TagsAtStart}
    /\ tagging = [c \in Callers |->
                     [pc |-> "idle", tag |-> "", current_tags |-> <<>>,
                      calls |-> 0, tagged |-> {}]]

\* add_case_tag up to the PATCH: case = self.get_case(case_id);
\* current_tags = case.get("tags", []); if tag not in current_tags.
\* With the tag present the call returns.
AddCaseTagGet(c, tag) ==
    /\ tagging[c].pc = "idle"
    /\ tagging[c].calls < MaxTagCalls
    /\ LET current_tags == thehive.tags
       IN  tagging' =
               [tagging EXCEPT
                   ![c] = [pc |-> IF tag \in Elems(current_tags)
                                  THEN "idle" ELSE "patch",
                           tag |-> tag,
                           current_tags |-> current_tags,
                           calls |-> @.calls + 1,
                           tagged |-> IF tag \in Elems(current_tags)
                                      THEN @.tagged \cup {tag} ELSE @.tagged]]
    /\ UNCHANGED <<thehive, risk_thresholds, assessment, pc, idx, likelihoods,
                   case_likelihood, returned, args, ret>>

\* updated_tags = current_tags + [tag]; PATCH {"tags": updated_tags}; return.
AddCaseTagPatch(c) ==
    /\ tagging[c].pc = "patch"
    /\ LET updated_tags == Append(tagging[c].current_tags, tagging[c].tag)
       IN  thehive' = [thehive EXCEPT !.tags = updated_tags]
    /\ tagging' = [tagging EXCEPT ![c].pc = "idle",
                                  ![c].tagged = @ \cup {tagging[c].tag}]
    /\ UNCHANGED <<risk_thresholds, assessment, pc, idx, likelihoods,
                   case_likelihood, returned, args, ret>>

NextTags ==
    \E c \in Callers :
        \/ \E tag \in TagInputs : AddCaseTagGet(c, tag)
        \/ AddCaseTagPatch(c)

SpecTags == InitTags /\ [][NextTags]_vars

-----------------------------------------------------------------------------
(* Properties of compute_likelihood                                        *)

\* The analyzers that report "malicious" in results.
MaliciousAnalyzers(results) ==
    {n \in Analyzers :
        \E k \in 1..Len(results) :
            results[k].analyzer_name = n /\ results[k].level = sMalicious}

\* The term the k-th result adds to the sum: its level's configured weight,
\* and 0.0 for a level outside the canonical four.
TermOf(results, k) ==
    IF results[k].level \in {sMalicious, sSuspicious, sSafe, sInfo}
    THEN VERDICT_WEIGHTS[results[k].level]
    ELSE Zero

\* The sum of the terms of the first k results.
RECURSIVE TermSum(_, _)
TermSum(results, k) ==
    IF k = 0 THEN Zero ELSE RatAdd(TermSum(results, k - 1), TermOf(results, k))

\* C1: the likelihood compute_likelihood returns lies in [0.0, 1.0], also
\* when the consensus boost was applied, and is exactly 0.0 for the empty
\* sequence.
C1_LikelihoodInUnitInterval ==
    pc = "returned" =>
        /\ RatLeq(Zero, ret)
        /\ RatLeq(ret, One)
        /\ (args.results = <<>> => ret = Zero)

\* A call returned 1.0 for a boosted mean above 1.0.
C1_Witness ==
    /\ pc = "returned"
    /\ Cardinality(MaliciousAnalyzers(args.results)) >= MALICIOUS_CONSENSUS_THRESHOLD
    /\ RatLt(One, RatMul(avg_of(args.results), MALICIOUS_CONSENSUS_BOOST))
    /\ ret = One

\* C3: the mean is multiplied by the boost exactly when the number of
\* distinct analyzers reporting "malicious" reaches the consensus threshold;
\* below it the result is the mean itself, capped at 1.0.
C3_BoostOnDistinctAnalyzers ==
    (pc = "returned" /\ args.results # <<>>) =>
        IF Cardinality(MaliciousAnalyzers(args.results)) >= MALICIOUS_CONSENSUS_THRESHOLD
        THEN ret = RatMin(RatMul(avg_of(args.results), MALICIOUS_CONSENSUS_BOOST), One)
        ELSE ret = RatMin(avg_of(args.results), One)

\* One analyzer reported "malicious" as often as the threshold asks for
\* analyzers, and the call returned the mean, which the boost would have
\* changed.
C3_Witness ==
    /\ pc = "returned"
    /\ Cardinality(MaliciousAnalyzers(args.results)) = 1
    /\ Cardinality({k \in 1..Len(args.results) : args.results[k].level = sMalicious})
          >= MALICIOUS_CONSENSUS_THRESHOLD
    /\ ret = avg_of(args.results)
    /\ ret # RatMin(RatMul(avg_of(args.results), MALICIOUS_CONSENSUS_BOOST), One)

\* C10: every result adds one term to the mean, a result of an unrecognized
\* level the term 0.0: the value returned is the sum of the terms of all
\* results divided by the number of all results, boosted on consensus and
\* capped at 1.0.
C10_EveryResultCounts ==
    (pc = "returned" /\ args.results # <<>>) =>
        LET n == Len(args.results)
            mean == RatDivInt(TermSum(args.results, n), n)
        IN  ret = RatMin(IF unique_analyzers(args.results) >= MALICIOUS_CONSENSUS_THRESHOLD
                         THEN RatMul(mean, MALICIOUS_CONSENSUS_BOOST)
                         ELSE mean,
                         One)

\* A call returned a nonzero likelihood for results of which one has an
\* unrecognized level: the result was counted in the divisor.
C10_Witness ==
    /\ pc = "returned"
    /\ \E k \in 1..Len(args.results) : args.results[k].level = sWeird
    /\ RatLt(Zero, ret)
    /\ RatLt(ret, One)

-----------------------------------------------------------------------------
(* Properties of score_case                                                *)

\* A call of score_case has returned and none is running.
Scored == pc = "idle" /\ returned # <<>>

\* C2: the risk level of every RiskScore that score_case returned is the
\* class of the ALE that RiskScore reports, the ALE rounded to 2 decimals.
C2_LevelClassifiesReportedAle ==
    \A k \in DOMAIN returned :
        returned[k].risk_level = classify_risk(Rat(returned[k].ale, 1))

\* C4: for an assessment with observables, the case likelihood score_case
\* uses is the largest of the likelihoods score_observable returned, and
\* on return every observable's likelihood field holds the likelihood of
\* its own verdicts, which is at most the case likelihood.
C4_CaseLikelihoodIsMaximum ==
    (Scored /\ assessment.observables # <<>>) =>
        /\ Len(likelihoods) = Len(assessment.observables)
        /\ \E k \in DOMAIN likelihoods : case_likelihood = likelihoods[k]
        /\ \A k \in DOMAIN likelihoods : RatLeq(likelihoods[k], case_likelihood)
        /\ \A k \in DOMAIN assessment.observables :
              LET o == assessment.observables[k]
              IN  /\ o.likelihood = compute_likelihood(o.analyzer_results)
                  /\ o.likelihood = likelihoods[k]
                  /\ RatLeq(o.likelihood, case_likelihood)

\* score_case returned for a case of two observables, the first of a larger
\* likelihood than the second.
C4_Witness ==
    /\ Scored
    /\ Len(assessment.observables) = 2
    /\ RatLt(assessment.observables[2].likelihood, assessment.observables[1].likelihood)
    /\ case_likelihood = assessment.observables[1].likelihood

\* C5: all the RiskScores that successive calls of score_case return for an
\* assessment are equal in likelihood, impact, ALE and risk level, and after
\* a call the assessment holds the RiskScore of that call.
C5_RescoringIsIdempotent ==
    /\ \A j, k \in DOMAIN returned : returned[j] = returned[k]
    /\ Scored => assessment.risk_score = returned[Len(returned)]

\* score_case returned twice for a case of a nonzero likelihood.
C5_Witness ==
    /\ Scored
    /\ Len(returned) >= 2
    /\ returned[2].likelihood > 0
    /\ assessment.risk_score = returned[2]

\* C7: for an assessment without observables score_case produces the
\* likelihood 0.0, the ALE 0.0 and the risk level "Info".
C7_NoObservablesIsInfo ==
    (Scored /\ assessment.observables = <<>>) =>
        /\ case_likelihood = Zero
        /\ assessment.risk_score.likelihood = 0
        /\ assessment.risk_score.ale = 0
        /\ assessment.risk_score.risk_level = "Info"

\* score_case returned for a database of high sensitivity without
\* observables.
C7_Witness ==
    /\ Scored
    /\ assessment.observables = <<>>
    /\ assessment.asset_type = sDatabase
    /\ assessment.sensitivity = sHigh
    /\ assessment.risk_score.impact_dollars = Rat(20000000, 1)
    /\ assessment.risk_score.risk_level = "Info"

-----------------------------------------------------------------------------
(* Properties of classify_risk and compute_impact                          *)

SeverityRank(label) ==
    CASE label = "Info" -> 0 [] label = "Low" -> 1 [] label = "Medium" -> 2
      [] label = "High" -> 3 [] label = "Critical" -> 4

CutoffsMonotonic ==
    /\ risk_thresholds.critical >= risk_thresholds.high
    /\ risk_thresholds.high >= risk_thresholds.medium
    /\ risk_thresholds.medium >= risk_thresholds.low

\* The label of the first cutoff, in the order critical, high, medium, low,
\* that the ALE reaches, and "Info" when it reaches none.
CheckOrder ==
    << <<"critical", "Critical">>, <<"high", "High">>, <<"medium", "Medium">>,
       <<"low", "Low">> >>

FirstReached(ale) ==
    LET hit == {k \in DOMAIN CheckOrder : AtLeast(ale, risk_thresholds[CheckOrder[k][1]])}
    IN  IF hit = {} THEN "Info"
        ELSE CheckOrder[CHOOSE k \in hit : \A j \in hit : k <= j][2]

\* C6: under cutoffs with critical >= high >= medium >= low, the severity
\* rank of classify_risk(a) is at most that of classify_risk(b) whenever
\* a <= b; under any cutoffs the label is that of the first cutoff reached in
\* the order critical, high, medium, low, and "Info" when none is reached.
C6_ClassifyMonotonic ==
    pc = "returned" =>
        /\ CutoffsMonotonic => SeverityRank(ret[1]) <= SeverityRank(ret[2])
        /\ ret[1] = FirstReached(args.ale)
        /\ ret[2] = FirstReached(args.ale2)

\* Under monotonic cutoffs, two ALE values half a cent apart were classified
\* Medium and High.
C6_Witness ==
    /\ pc = "returned"
    /\ CutoffsMonotonic
    /\ risk_thresholds.critical > risk_thresholds.high
    /\ risk_thresholds.high > risk_thresholds.medium
    /\ args.ale = Rat(2 * risk_thresholds.high - 1, 2)
    /\ args.ale2 = Rat(risk_thresholds.high, 1)
    /\ ret = <<"Medium", "High">>

\* C8: compute_impact returns base x multiplier for every asset type and
\* sensitivity: the configured value of the lower-cased asset type or the
\* default value, times the configured multiplier of the lower-cased
\* sensitivity or the multiplier of the default tier; an input gives the
\* impact of its lower-case spelling, so that inputs that differ in letter
\* case only give the same impact.
C8_ImpactFallsBackToDefaults ==
    pc = "returned" =>
        LET a == Lower(args.asset_type)
            t == Lower(args.sensitivity)
            base == IF a = sDatabase THEN ASSET_VALUES[sDatabase] ELSE DEFAULT_ASSET_VALUE
            multiplier == IF t \in {sHigh, sMedium} THEN SENSITIVITY_MULTIPLIERS[t]
                          ELSE SENSITIVITY_MULTIPLIERS[DEFAULT_SENSITIVITY]
        IN  /\ ret = RatMul(Rat(base, 1), multiplier)
            /\ compute_impact(a, t) = ret

\* compute_impact returned $20,000, the default asset value at the high
\* multiplier, for an unconfigured asset type and "HIGH".
C8_Witness ==
    /\ pc = "returned"
    /\ args.asset_type = sLaptop
    /\ args.sensitivity = <<"H", "I", "G", "H">>
    /\ ret = Rat(2 * DEFAULT_ASSET_VALUE, 1)

-----------------------------------------------------------------------------
(* Properties of the verdict extraction                                    *)

\* The taxonomies of the job of the call.
JobTaxonomies ==
    IF args.job.report = "dict" /\ args.job.summary = "dict"
    THEN args.job.taxonomies.items
    ELSE <<>>

\* Every taxonomy of the job has a string for its level, or none.
LevelsWellFormed ==
    \A k \in DOMAIN JobTaxonomies : JobTaxonomies[k].level.t \in {"str", "missing"}

\* C9: whatever the score values of the taxonomies are (a non-numeric
\* string, a fraction with a zero or non-numeric part, no value, null or
\* another non-string), extract_verdicts raises nothing and returns one
\* AnalyzerResult for each taxonomy, with the score 0 for a value that is
\* neither a number nor a string.
C9_MalformedScoreNeverAborts ==
    (pc = "returned" /\ LevelsWellFormed) =>
        /\ ret.raised = ""
        /\ Len(ret.results) = Len(JobTaxonomies)
        /\ \A k \in DOMAIN JobTaxonomies :
              JobTaxonomies[k].value.t \in {"NoneType", "list"} =>
                  ret.results[k].score = Zero

\* Score values that are strings, numbers or absent never abort the
\* extraction.
StringScoresNeverAbort ==
    (pc = "returned" /\ LevelsWellFormed
        /\ \A k \in DOMAIN JobTaxonomies :
              JobTaxonomies[k].value.t \in {"str", "int", "missing"}) =>
        /\ ret.raised = ""
        /\ Len(ret.results) = Len(JobTaxonomies)

-----------------------------------------------------------------------------
(* Properties of the risk_score field                                      *)

\* The risk_score of the assessment before the running call: that of the
\* last call that returned, and None before the first.
ScoreBeforeCall == IF returned = <<>> THEN None ELSE returned[Len(returned)]

\* The largest likelihood field of the observables, 0.0 without observables.
LargestLikelihood ==
    IF assessment.observables = <<>> THEN Zero
    ELSE LET fields == {assessment.observables[k].likelihood :
                            k \in DOMAIN assessment.observables}
         IN  CHOOSE x \in fields : \A y \in fields : RatLeq(y, x)

\* The RiskScore of the likelihood fields the observables hold now: all four
\* fields.
CompleteScore ==
    LET impact == compute_impact(assessment.asset_type, assessment.sensitivity)
        ale == RatMul(LargestLikelihood, impact)
    IN  [likelihood |-> Round4(LargestLikelihood),
         impact_dollars |-> impact,
         ale |-> Round2(ale),
         risk_level |-> classify_risk(ale)]

\* C11: while score_case runs, and after a run that raised, the assessment's
\* risk_score is its value from before the call; once a call has returned it
\* is the complete RiskScore of the likelihoods the observables hold, the one
\* that call returned.  No other value of the field is ever visible.
C11_NoPartialScore ==
    /\ pc \in {"loop", "raised"} => assessment.risk_score = ScoreBeforeCall
    /\ pc = "idle" =>
          /\ assessment.risk_score = ScoreBeforeCall
          /\ returned # <<>> => assessment.risk_score = CompleteScore

\* A re-scoring run over a scored assessment raised after it had given the
\* first observable a new likelihood: the assessment holds the RiskScore of
\* the earlier run, which is not the score of the likelihoods it holds now.
C11_Witness ==
    /\ pc = "raised"
    /\ idx = 2
    /\ returned # <<>>
    /\ assessment.risk_score = returned[Len(returned)]
    /\ assessment.risk_score # CompleteScore

-----------------------------------------------------------------------------
(* Properties of add_case_tag                                              *)

\* Every call of add_case_tag has returned.
AllTagCallsReturned == \A c \in Callers : tagging[c].pc = "idle"

\* C12: a call sends a PATCH only when the list it fetched lacks the tag, and
\* no tag is on the case more often than once or than at the start; once the
\* calls have returned, interleaved or not, the case holds every tag it had
\* before the calls and the tag of every call.
C12_TagsKeptAndAddedOnce ==
    /\ \A c \in Callers :
          tagging[c].pc = "patch" =>
              tagging[c].tag \notin Elems(tagging[c].current_tags)
    /\ \A t \in Elems(thehive.tags) :
          \/ Count(t, thehive.tags) = 1
          \/ Count(t, thehive.tags) <= Count(t, thehive.tags_at_start)
    /\ AllTagCallsReturned =>
          /\ Elems(thehive.tags_at_start) \subseteq Elems(thehive.tags)
          /\ \A c \in Callers : tagging[c].tagged \subseteq Elems(thehive.tags)

=============================================================================
